---- MODULE Spec2Model ----
(***************************************************************************)
(* Streamlet-style consensus core of market_sim                            *)
(* (src/market_sim/core/consensus/streamlet.py, crypto.py).                *)
(*                                                                         *)
(* A replica (class Node) is a record; its methods are operators from a    *)
(* replica record to the updated record and the returned value.  An        *)
(* Optional[...] return value is a set with at most one element.           *)
(* StreamletNetwork is the pair (node_ids, nodes).                         *)
(***************************************************************************)
EXTENDS Integers, Sequences, FiniteSets, TLC

VARIABLES
    node_ids,   \* StreamletNetwork.node_ids: the roster, a sequence of ids
    f,          \* StreamletNetwork.f
    nodes,      \* StreamletNetwork.nodes: id -> Node record
    clock,      \* the caller's epoch counter (the loop variable of the tests)
    calls       \* log of the step_epoch calls made so far

vars == <<node_ids, f, nodes, clock, calls>>

-----------------------------------------------------------------------------
(* Bounds and constants *)

\* f, the Byzantine tolerance the networks are built with.
F == 1
\* step_epoch is called with epochs 0..MaxEpoch, at most MaxSteps times.
MaxEpoch == 2
MaxSteps == 4
Payloads == {"tx0", "tx1"}

NodeNames == <<"n1", "n2", "n3", "n4", "n5", "n6", "n7", "n8", "n9">>
Roster(n) == SubSeq(NodeNames, 1, n)
\* The rosters of the harness: n = 3f+1 and n = 3f+2 replicas.
Rosters == {Roster(3 * F + 1), Roster(3 * F + 2)}

-----------------------------------------------------------------------------
(* Data model *)

\* Node.genesis_hash: the distinguished root hash.
GENESIS == <<"GENESIS">>
\* Python None as the value of parent_of[b] / dict.get.
None == <<>>

\* Block.hash: SHA-256 of the four fields.  Modelled as the injective
\* encoding of the preimage (no collisions); the digest of a block is a
\* 4-tuple, so it never equals GENESIS or None.
Hash(blk) == <<blk.parent_hash, blk.epoch, blk.proposer_id, blk.payload>>

Block(parent_hash, epoch, proposer_id, payload) ==
    [parent_hash |-> parent_hash, epoch |-> epoch,
     proposer_id |-> proposer_id, payload |-> payload]

\* Ed25519KeyPair.generate per roster member: the public key of id.
PublicKey(id) == <<"pk", id>>
\* Ed25519KeyPair.sign with the private key of `signer`.
Sign(signer, msg) == [key |-> PublicKey(signer), msg |-> msg]
\* verify_signature accepting every signature.
verify_signature_any(pub, msg, sig) == TRUE

\* crypto.verify_signature
verify_signature(pub, msg, sig) == sig.key = pub /\ sig.msg = msg

\* the signed message f"{block_hash}:{epoch}:{voter_id}"
VoteMsg(block_hash, epoch, voter_id) == <<block_hash, epoch, voter_id>>

\* The Node dataclass after construction by StreamletNetwork.__init__.
NewNode(id, ids, ff) ==
    [node_id |-> id,
     public_keys |-> [v \in {ids[i] : i \in 1..Len(ids)} |-> PublicKey(v)],
     f |-> ff,
     blocks |-> <<>>,
     parent_of |-> <<>>,
     notarized_blocks |-> {},
     votes_seen |-> <<>>,
     notarizations |-> <<>>,
     finalized |-> {}]

\* dict.get(key) with default None
Get(d, k) == IF k \in DOMAIN d THEN d[k] ELSE None
\* d[k] = v on a dictionary emptied first.
Put_clearing(d, k, v) == (k :> v)

\* d[k] = v
Put(d, k, v) == (k :> v) @@ d

-----------------------------------------------------------------------------
(* Node: chain selection *)

\* The walk `while cur and cur in self.blocks` of longest_notarized_chains:
\* the chain gathered from cur (newest first) and the hash the walk stops at.
RECURSIVE Walk(_, _, _)
Walk(nd, cur, chain) ==
    IF cur # None /\ cur \in DOMAIN nd.blocks
    THEN Walk(nd, Get(nd.parent_of, cur), Append(chain, cur))
    ELSE [chain |-> chain, cur |-> cur]

Reverse(s) == [i \in 1..Len(s) |-> s[Len(s) + 1 - i]]

SetMax(S) == CHOOSE x \in S : \A y \in S : y <= x

\* longest_notarized_chains keeping every chain that reaches GENESIS,
\* whatever its length.
longest_notarized_chains_all(nd) ==
    LET cands == {w \in {Walk(nd, bh, <<>>) : bh \in nd.notarized_blocks} :
                     w.cur = GENESIS \/ w.cur = None}
    IN {Reverse(w.chain) : w \in cands}

\* Node.longest_notarized_chains, as the set of the chains of the returned
\* list (oldest block first).  The order of the list is the iteration order
\* of the set notarized_blocks, which the language leaves open.
longest_notarized_chains(nd) ==
    LET cands == {w \in {Walk(nd, bh, <<>>) : bh \in nd.notarized_blocks} :
                     w.cur = GENESIS \/ w.cur = None}
        max_len == SetMax({0} \cup {Len(w.chain) : w \in cands})
    IN {Reverse(w.chain) : w \in {x \in cands : Len(x.chain) = max_len}}

\* get_quorum counting one vote too many.
get_quorum_off_by_one(nd) == 2 * nd.f + 2

\* A quorum of 2f votes.
get_quorum_2f(nd) == 2 * nd.f

\* Node.get_quorum
get_quorum(nd) == 2 * nd.f + 1

\* leader_for_epoch always electing the first roster member.
leader_for_epoch_first(epoch, ids) == ids[1]

\* Node.leader_for_epoch
leader_for_epoch(epoch, ids) == ids[(epoch % Len(ids)) + 1]

-----------------------------------------------------------------------------
(* Node: propose, vote *)

\* propose always building on GENESIS.
ProposeParents_genesis(nd) == {GENESIS}

\* The parents propose may pick: chains[-1][-1] for some order of the list of
\* longest chains, or GENESIS when there is none.
ProposeParents(nd) ==
    LET chains == longest_notarized_chains(nd)
    IN IF chains = {} THEN {GENESIS} ELSE {c[Len(c)] : c \in chains}

\* Node.propose with the parent the tie-break picked.
propose(nd, epoch, ids, payload, parent_hash) ==
    IF leader_for_epoch(epoch, ids) # nd.node_id
    THEN [node |-> nd, out |-> {}]
    ELSE LET blk == Block(parent_hash, epoch, nd.node_id, payload)
             bh == Hash(blk)
         IN [node |-> [nd EXCEPT
                          !.blocks = Put(@, bh, blk),
                          !.parent_of = Put(@, bh,
                              IF parent_hash # GENESIS THEN parent_hash ELSE None)],
             out |-> {blk}]

\* Node.sign_vote
sign_vote(nd, block_hash, epoch) ==
    [block_hash |-> block_hash, epoch |-> epoch, voter_id |-> nd.node_id,
     signature |-> Sign(nd.node_id, VoteMsg(block_hash, epoch, nd.node_id))]

\* The test reading the key (block_hash, voter_id) in the wrong order.
VotedInEpoch_swapped_key(nd, epoch) ==
    \E k \in DOMAIN nd.votes_seen :
        /\ k[1] \in DOMAIN nd.blocks
        /\ k[1] = nd.node_id
        /\ nd.blocks[k[1]].epoch = epoch

\* The first test of can_vote_for: a vote of its own for a known block of
\* this epoch is recorded in votes_seen.
VotedInEpoch(nd, epoch) ==
    \E k \in DOMAIN nd.votes_seen :
        /\ k[1] \in DOMAIN nd.blocks
        /\ k[2] = nd.node_id
        /\ nd.blocks[k[1]].epoch = epoch

\* can_vote_for without the test for an earlier vote in the epoch.
can_vote_for_any_epoch(nd, blk) ==
    IF blk.epoch < 0 THEN FALSE
    ELSE LET chains == longest_notarized_chains(nd)
         IN IF chains = {}
            THEN blk.parent_hash = GENESIS \/ blk.parent_hash \notin DOMAIN nd.blocks
            ELSE blk.parent_hash \in {c[Len(c)] : c \in chains}

\* can_vote_for whose bootstrap case accepts a parent of GENESIS only.
can_vote_for_genesis_only(nd, blk) ==
    IF VotedInEpoch(nd, blk.epoch) THEN FALSE
    ELSE IF blk.epoch < 0 THEN FALSE
    ELSE LET chains == longest_notarized_chains(nd)
         IN IF chains = {}
            THEN blk.parent_hash = GENESIS
            ELSE blk.parent_hash \in {c[Len(c)] : c \in chains}

\* Node.can_vote_for
can_vote_for(nd, blk) ==
    IF VotedInEpoch(nd, blk.epoch) THEN FALSE
    ELSE IF blk.epoch < 0 THEN FALSE
    ELSE LET chains == longest_notarized_chains(nd)
         IN IF chains = {}
            THEN blk.parent_hash = GENESIS \/ blk.parent_hash \notin DOMAIN nd.blocks
            ELSE blk.parent_hash \in {c[Len(c)] : c \in chains}

\* observe_proposal marking the delivered block notarized.
observe_proposal_notarizing(nd, blk) ==
    LET bh == Hash(blk)
        nd1 == [nd EXCEPT
                   !.blocks = Put(@, bh, blk),
                   !.parent_of = Put(@, bh,
                       IF blk.parent_hash # GENESIS THEN blk.parent_hash ELSE None),
                   !.notarized_blocks = @ \cup {bh}]
    IN IF can_vote_for(nd1, blk)
       THEN LET vote == sign_vote(nd1, bh, blk.epoch)
            IN [node |-> [nd1 EXCEPT !.votes_seen = Put(@, <<bh, nd.node_id>>, vote)],
                out |-> {vote}, raised |-> FALSE]
       ELSE [node |-> nd1, out |-> {}, raised |-> FALSE]

\* self.epoch.to_bytes(8, "big") in Block.hash raises OverflowError for an
\* epoch that is no unsigned integer (the epochs of the model stay far below
\* the upper limit of 8 bytes).
HashRaises(blk) == blk.epoch < 0

\* Node.observe_proposal; `raised` when the call ends in an exception, which
\* Block.hash raises before any field is assigned.
observe_proposal(nd, blk) ==
    IF HashRaises(blk) THEN [node |-> nd, out |-> {}, raised |-> TRUE]
    ELSE
    LET bh == Hash(blk)
        nd1 == [nd EXCEPT
                   !.blocks = Put(@, bh, blk),
                   !.parent_of = Put(@, bh,
                       IF blk.parent_hash # GENESIS THEN blk.parent_hash ELSE None)]
    IN IF can_vote_for(nd1, blk)
       THEN LET vote == sign_vote(nd1, bh, blk.epoch)
            IN [node |-> [nd1 EXCEPT !.votes_seen = Put(@, <<bh, nd.node_id>>, vote)],
                out |-> {vote}, raised |-> FALSE]
       ELSE [node |-> nd1, out |-> {}, raised |-> FALSE]

-----------------------------------------------------------------------------
(* Node: notarization and finalization *)

\* The first loop of _try_finalize: up to three known blocks from the tip
\* through parent_of; `aborted` when one of them is not notarized.
RECURSIVE Gather(_, _, _)
Gather(nd, cur, chain) ==
    IF cur \in DOMAIN nd.blocks /\ Len(chain) < 3
    THEN IF cur \notin nd.notarized_blocks
         THEN [chain |-> chain, aborted |-> TRUE]
         ELSE Gather(nd, Get(nd.parent_of, cur), Append(chain, cur))
    ELSE [chain |-> chain, aborted |-> FALSE]

\* The second loop of _try_finalize: cur and its ancestors join finalized
\* until an unknown or an already finalized block is met.
RECURSIVE FinalizeFrom(_, _, _)
FinalizeFrom(nd, cur, fin) ==
    IF cur # None /\ cur \in DOMAIN nd.blocks /\ cur \notin fin
    THEN FinalizeFrom(nd, Get(nd.parent_of, cur), fin \cup {cur})
    ELSE fin

\* _try_finalize finalizing the middle block alone, not its ancestors.
try_finalize_middle_only(nd, tip_hash) ==
    LET g == Gather(nd, tip_hash, <<>>)
    IN IF g.aborted \/ Len(g.chain) < 3 THEN nd
       ELSE LET blk3 == nd.blocks[g.chain[1]]
                blk2 == nd.blocks[g.chain[2]]
                blk1 == nd.blocks[g.chain[3]]
            IN IF blk3.epoch = blk2.epoch + 1 /\ blk2.epoch = blk1.epoch + 1
               THEN [nd EXCEPT !.finalized = @ \cup {g.chain[2]}]
               ELSE nd

\* _try_finalize without the test for consecutive epochs.
try_finalize_any_epochs(nd, tip_hash) ==
    LET g == Gather(nd, tip_hash, <<>>)
    IN IF g.aborted \/ Len(g.chain) < 3 THEN nd
       ELSE [nd EXCEPT !.finalized = FinalizeFrom(nd, g.chain[2], @)]

\* Node._try_finalize
try_finalize(nd, tip_hash) ==
    LET g == Gather(nd, tip_hash, <<>>)
    IN IF g.aborted \/ Len(g.chain) < 3 THEN nd
       ELSE LET blk3 == nd.blocks[g.chain[1]]
                blk2 == nd.blocks[g.chain[2]]
                blk1 == nd.blocks[g.chain[3]]
            IN IF blk3.epoch = blk2.epoch + 1 /\ blk2.epoch = blk1.epoch + 1
               THEN [nd EXCEPT !.finalized = FinalizeFrom(nd, g.chain[2], @)]
               ELSE nd

\* The set update overwriting notarized_blocks instead of adding to it.
mark_notarized_overwriting(nd, block_hash) ==
    [nd EXCEPT !.notarized_blocks = {block_hash}]

\* self.notarized_blocks.add(vote.block_hash) in observe_vote
mark_notarized(nd, block_hash) ==
    [nd EXCEPT !.notarized_blocks = @ \cup {block_hash}]

\* The duplicate test never finding the pair.
already_seen_never(nd, key) == FALSE

\* `key in self.votes_seen` in observe_vote
already_seen(nd, key) == key \in DOMAIN nd.votes_seen

\* Node.observe_vote
observe_vote(nd, vote) ==
    IF vote.voter_id \notin DOMAIN nd.public_keys
    THEN [node |-> nd, out |-> {}]
    ELSE IF ~verify_signature(nd.public_keys[vote.voter_id],
                              VoteMsg(vote.block_hash, vote.epoch, vote.voter_id),
                              vote.signature)
    THEN [node |-> nd, out |-> {}]
    ELSE LET key == <<vote.block_hash, vote.voter_id>>
         IN IF already_seen(nd, key)
            THEN [node |-> nd, out |-> {}]
            ELSE LET old == IF vote.block_hash \in DOMAIN nd.notarizations
                            THEN nd.notarizations[vote.block_hash]
                            ELSE [block_hash |-> vote.block_hash,
                                  epoch |-> vote.epoch, voters |-> {}]
                     notz == [old EXCEPT !.voters = @ \cup {vote.voter_id}]
                     nd1 == [nd EXCEPT
                                !.votes_seen = Put(@, key, vote),
                                !.notarizations = Put(@, vote.block_hash, notz)]
                 IN IF Cardinality(notz.voters) >= get_quorum(nd)
                    THEN [node |-> try_finalize(mark_notarized(nd1, vote.block_hash),
                                                vote.block_hash),
                          out |-> {notz}]
                    ELSE [node |-> nd1, out |-> {}]

-----------------------------------------------------------------------------
(* StreamletNetwork *)

\* The loop `for nid, node in self.nodes.items()` of step_epoch over the
\* roster from position i on, delivering to the replicas in `to`:
\* the replicas after the loop and the list of the votes gathered.
RECURSIVE BroadcastProposal(_, _, _, _, _, _)
BroadcastProposal(ns, ids, i, to, blk, votes) ==
    IF i > Len(ids) THEN [nodes |-> ns, votes |-> votes]
    ELSE IF ids[i] \notin to
    THEN BroadcastProposal(ns, ids, i + 1, to, blk, votes)
    ELSE LET r == observe_proposal(ns[ids[i]], blk)
         IN BroadcastProposal([ns EXCEPT ![ids[i]] = r.node], ids, i + 1, to, blk,
                              IF r.out = {} THEN votes
                              ELSE Append(votes, CHOOSE v \in r.out : TRUE))

\* The inner loop `for node in self.nodes.values(): node.observe_vote(vote)`.
RECURSIVE BroadcastVote(_, _, _, _, _)
BroadcastVote(ns, ids, i, to, vote) ==
    IF i > Len(ids) THEN ns
    ELSE IF ids[i] \notin to
    THEN BroadcastVote(ns, ids, i + 1, to, vote)
    ELSE BroadcastVote([ns EXCEPT ![ids[i]] = observe_vote(ns[ids[i]], vote).node],
                       ids, i + 1, to, vote)

\* The outer loop `for vote in votes`.
RECURSIVE BroadcastVotes(_, _, _, _, _)
BroadcastVotes(ns, ids, to, votes, j) ==
    IF j > Len(votes) THEN ns
    ELSE BroadcastVotes(BroadcastVote(ns, ids, 1, to, votes[j]), ids, to, votes, j + 1)

\* step_epoch whose vote loop leaves out the last replica.
step_epoch_votes_miss_last(ns, ids, epoch, payload, parent_hash, to_p, to_v) ==
    LET leader == ids[(epoch % Len(ids)) + 1]
        p == propose(ns[leader], epoch, ids, payload, parent_hash)
    IN IF p.out = {} THEN [nodes |-> ns, proposal |-> {}, votes |-> <<>>]
       ELSE LET blk == CHOOSE b \in p.out : TRUE
                bp == BroadcastProposal([ns EXCEPT ![leader] = p.node],
                                        ids, 1, to_p, blk, <<>>)
            IN [nodes |-> BroadcastVotes(bp.nodes, ids, to_v \ {ids[Len(ids)]},
                                         bp.votes, 1),
                proposal |-> {blk},
                votes |-> bp.votes]

\* StreamletNetwork.step_epoch with the parent the leader's tie-break picked;
\* the proposal reaches the replicas in `to_p`, the votes those in `to_v`
\* (every replica in the harness itself).
step_epoch(ns, ids, epoch, payload, parent_hash, to_p, to_v) ==
    LET leader == ids[(epoch % Len(ids)) + 1]
        p == propose(ns[leader], epoch, ids, payload, parent_hash)
    IN IF p.out = {} THEN [nodes |-> ns, proposal |-> {}, votes |-> <<>>]
       ELSE LET blk == CHOOSE b \in p.out : TRUE
                bp == BroadcastProposal([ns EXCEPT ![leader] = p.node],
                                        ids, 1, to_p, blk, <<>>)
            IN [nodes |-> BroadcastVotes(bp.nodes, ids, to_v, bp.votes, 1),
                proposal |-> {blk},
                votes |-> bp.votes]

\* finalized_by_all joining the sets instead of intersecting them.
finalized_by_all_union(ns, ids) == UNION {ns[n].finalized : n \in DOMAIN ns}

\* StreamletNetwork.finalized_by_all
finalized_by_all(ns, ids) ==
    {h \in UNION {ns[n].finalized : n \in DOMAIN ns} :
        \A n \in DOMAIN ns : h \in ns[n].finalized}

-----------------------------------------------------------------------------
(* The synchronous harness: StreamletNetwork driven by step_epoch calls *)

Ids == {node_ids[i] : i \in 1..Len(node_ids)}

\* StreamletNetwork.__init__
Init ==
    /\ f = F
    /\ node_ids \in Rosters
    /\ nodes = [id \in {node_ids[i] : i \in 1..Len(node_ids)} |->
                   NewNode(id, node_ids, f)]
    /\ clock = 0
    /\ calls = <<>>

\* One step_epoch call whose proposal reaches the replicas in to_p and whose
\* votes reach the replicas in to_v.
StepEpochTo(epoch, payload, to_p, to_v) ==
    /\ \E parent_hash \in ProposeParents(nodes[leader_for_epoch(epoch, node_ids)]) :
          LET s == step_epoch(nodes, node_ids, epoch, payload, parent_hash, to_p, to_v)
          IN /\ nodes' = s.nodes
             /\ calls' = Append(calls, [epoch |-> epoch, payload |-> payload,
                                        proposal |-> s.proposal,
                                        voters |-> {s.votes[j].voter_id :
                                                       j \in 1..Len(s.votes)},
                                        to_p |-> to_p, to_v |-> to_v])
    /\ UNCHANGED <<node_ids, f, clock>>

\* net.step_epoch(epoch, payload)
StepEpoch(epoch, payload) ==
    /\ Len(calls) < MaxSteps
    /\ StepEpochTo(epoch, payload, Ids, Ids)

Next == \E epoch \in 0..MaxEpoch, payload \in Payloads : StepEpoch(epoch, payload)

Spec == Init /\ [][Next]_vars

-----------------------------------------------------------------------------
(* Properties of the harness *)

\* The epoch of a block a replica knows by its hash.
EpochOf(nd, h) == nd.blocks[h].epoch

\* The hash of the block the i-th step_epoch call proposed.
ProposalOf(i) == Hash(CHOOSE b \in calls[i].proposal : TRUE)

CallEpochs == {calls[i].epoch : i \in 1..Len(calls)}
DistinctEpochs == Cardinality(CallEpochs) = Len(calls)

\* No two replicas hold different finalized blocks of one epoch.
Agreement(ns) ==
    \A r1 \in DOMAIN ns, r2 \in DOMAIN ns :
        \A h1 \in ns[r1].finalized, h2 \in ns[r2].finalized :
            (/\ h1 \in DOMAIN ns[r1].blocks
             /\ h2 \in DOMAIN ns[r2].blocks
             /\ EpochOf(ns[r1], h1) = EpochOf(ns[r2], h2)) => h1 = h2

\* C1: in the synchronous harness with n >= 3f+1 replicas, after any
\* sequence of step_epoch calls (any epochs, any order, repeats, any
\* payloads) no two replicas have finalized different blocks of one epoch.
C1_HarnessSafety == Len(node_ids) >= 3 * f + 1 => Agreement(nodes)

\* C1 witness: an epoch was stepped twice (the second call got no vote) and
\* two replicas have finalized a block of that epoch.
C1_Witness ==
    \E i \in 1..Len(calls), j \in 1..Len(calls) :
        /\ i < j /\ calls[i].epoch = calls[j].epoch /\ calls[j].voters = {}
        /\ \E r1 \in Ids, r2 \in Ids :
              /\ r1 # r2
              /\ ProposalOf(i) \in nodes[r1].finalized
              /\ ProposalOf(i) \in nodes[r2].finalized

\* The calls so far are step_epoch(0), step_epoch(1), ..., step_epoch(k).
InOrderFromZero == \A i \in 1..Len(calls) : calls[i].epoch = i - 1

\* C3: roster [n1..n4], f = 1, step_epoch called for epochs 0,1,...,k in
\* that order (k >= 2): every replica's finalized set contains the blocks
\* proposed in the epochs 0..k-1; after epochs 0,1,2 the block of epoch 1 is
\* in finalized_by_all().
C3_ConsecutiveEpochsFinalize ==
    (Len(node_ids) = 4 /\ f = 1 /\ Len(calls) >= 3 /\ InOrderFromZero) =>
        /\ \A r \in Ids : \A i \in 1..(Len(calls) - 1) :
              ProposalOf(i) \in nodes[r].finalized
        /\ ProposalOf(2) \in finalized_by_all(nodes, node_ids)

\* C3 witness: epochs 0,1,2 were stepped in order on the roster of four.
C3_Witness ==
    /\ Len(node_ids) = 4 /\ Len(calls) >= 3 /\ InOrderFromZero
    /\ ProposalOf(1) \in finalized_by_all(nodes, node_ids)

\* C4: with n >= 3f+1 replicas (f >= 1) and pairwise distinct epochs, at
\* the end of each step_epoch(e) the block proposed by the leader
\* roster[e mod n] is in notarized_blocks of every replica.
C4_NotarizedEveryEpoch ==
    (Len(node_ids) >= 3 * f + 1 /\ f >= 1 /\ calls # <<>> /\ DistinctEpochs) =>
        LET c == calls[Len(calls)]
        IN /\ c.proposal # {}
           /\ \A b \in c.proposal :
                 /\ b.proposer_id = node_ids[(c.epoch % Len(node_ids)) + 1]
                 /\ b.epoch = c.epoch
                 /\ \A r \in Ids : Hash(b) \in nodes[r].notarized_blocks

\* C4 witness: distinct epochs stepped out of order on a roster of five.
C4_Witness ==
    /\ Len(node_ids) = 5 /\ Len(calls) >= 3 /\ DistinctEpochs
    /\ calls[1].epoch > calls[2].epoch
    /\ \A r \in Ids : ProposalOf(Len(calls)) \in nodes[r].notarized_blocks

-----------------------------------------------------------------------------
(* The harness on a network that loses messages to one replica: in each     *)
(* step the proposal, or the votes, may fail to reach the last replica of   *)
(* the roster (which then casts no vote, or sees none).                     *)

AllButLast == Ids \ {node_ids[Len(node_ids)]}

\* Who receives the proposal and who receives the votes of a step.
Deliveries == {<<Ids, Ids>>, <<AllButLast, Ids>>, <<Ids, AllButLast>>}

NextNet ==
    \E epoch \in 0..(MaxEpoch + 1), d \in Deliveries :
        /\ Len(calls) < MaxSteps
        /\ StepEpochTo(epoch, "tx0", d[1], d[2])

SpecNet == Init /\ [][NextNet]_vars

\* C5: with n = 4 and f = 1 one replica that never votes does not block
\* notarization: when the proposal reached the three other replicas, they
\* voted and each of their votes reached every replica, the block is
\* notarized at each of the three.
C5_SilentVoterNotarizes ==
    \A i \in 1..Len(calls) :
        (/\ Len(node_ids) = 4 /\ f = 1
         /\ calls[i].to_p = AllButLast /\ calls[i].to_v = Ids
         /\ calls[i].voters = AllButLast) =>
            \A r \in AllButLast : ProposalOf(i) \in nodes[r].notarized_blocks

\* C7: every hash in finalized is also in notarized_blocks, at every replica.
C7_FinalizedNotarized ==
    \A r \in Ids : nodes[r].finalized \subseteq nodes[r].notarized_blocks

-----------------------------------------------------------------------------
(* The harness on a partitioned network: the roster is split in two halves  *)
(* of 2f+2 replicas that exchange no message.  The caller's clock gives the *)
(* epoch; in an epoch the leader may propose once to each half (payload     *)
(* "tx0" to the first half, "tx1" to the second), and the proposal and its  *)
(* votes stay inside that half.                                             *)

\* The clock runs through the epochs 0..PartitionEpochs; at most
\* PartitionSteps proposals are made.
PartitionEpochs == 6
PartitionSteps == 7

HalfSize == 2 * F + 2
Half(side) ==
    {node_ids[i] : i \in ((side - 1) * HalfSize + 1)..(side * HalfSize)}
HalfPayload(side) == IF side = 1 THEN "tx0" ELSE "tx1"

InitPartition ==
    /\ f = F
    /\ node_ids = Roster(2 * HalfSize)
    /\ nodes = [id \in {node_ids[i] : i \in 1..Len(node_ids)} |->
                   NewNode(id, node_ids, f)]
    /\ clock = 0
    /\ calls = <<>>

\* The caller moves on to the next epoch.
Tick ==
    /\ clock < PartitionEpochs
    /\ clock' = clock + 1
    /\ UNCHANGED <<node_ids, f, nodes, calls>>

\* step_epoch(clock, payload) with the messages confined to one half.
PartitionStep(side) ==
    /\ Len(calls) < PartitionSteps
    /\ \A i \in 1..Len(calls) :
          ~(calls[i].epoch = clock /\ calls[i].to_p = Half(side))
    /\ StepEpochTo(clock, HalfPayload(side), Half(side), Half(side))

NextPartition == Tick \/ \E side \in {1, 2} : PartitionStep(side)

SpecPartition == InitPartition /\ [][NextPartition]_vars

\* C2: with n >= 3f+1 replicas running the Node code, whatever blocks the
\* leaders propose (several per epoch included) and wherever the proposals
\* and votes are delivered, no two replicas finalize different blocks of
\* the same epoch.
C2_OrderIndependentSafety ==
    Len(node_ids) >= 3 * f + 1 =>
        \A r1 \in Ids, r2 \in Ids :
            \A h1 \in nodes[r1].finalized, h2 \in nodes[r2].finalized :
                nodes[r1].blocks[h1].epoch = nodes[r2].blocks[h2].epoch => h1 = h2

-----------------------------------------------------------------------------
(* One replica under arbitrary calls: propose, observe_proposal and         *)
(* observe_vote invoked on the first replica of a roster of 3f+1 in any     *)
(* order, with the blocks and votes the other roster members can send.      *)

\* The replica hears of at most MaxBlocks different block hashes.
MaxBlocks == 3

\* The replica the calls are made on.
Replica == node_ids[1]

Heard(nd) == DOMAIN nd.blocks \cup DOMAIN nd.notarizations

MayHear(nd, h) == h \in Heard(nd) \/ Cardinality(Heard(nd)) < MaxBlocks

\* The blocks in flight: every chain the leaders of epochs 0..MaxEpoch can
\* have built on GENESIS with epochs increasing along the chain.
RECURSIVE ChainBlocks(_, _)
ChainBlocks(parent_hash, from_epoch) ==
    UNION {LET blk == Block(parent_hash, e, leader_for_epoch(e, node_ids), "tx0")
           IN {blk} \cup ChainBlocks(Hash(blk), e + 1) : e \in from_epoch..MaxEpoch}

EnvBlocks == ChainBlocks(GENESIS, 0)

\* The vote replica v returns from observe_proposal(blk) when it votes.
VoteOf(v, blk) ==
    [block_hash |-> Hash(blk), epoch |-> blk.epoch, voter_id |-> v,
     signature |-> Sign(v, VoteMsg(Hash(blk), blk.epoch, v))]

\* The votes in flight: those of the other roster members for the blocks in
\* flight, and the replica's own votes sent back to it.
EnvVotes(nd) ==
    {VoteOf(v, blk) : v \in Ids \ {nd.node_id}, blk \in EnvBlocks}
    \cup {nd.votes_seen[k] : k \in {x \in DOMAIN nd.votes_seen : x[2] = nd.node_id}}

InitNode ==
    /\ Init
    /\ Len(node_ids) = 3 * F + 1

\* nodes[r].propose(epoch, node_ids, payload)
Propose(r, epoch, payload) ==
    /\ \E parent_hash \in ProposeParents(nodes[r]) :
          LET res == propose(nodes[r], epoch, node_ids, payload, parent_hash)
          IN /\ \A b \in res.out : MayHear(nodes[r], Hash(b))
             /\ nodes' = [nodes EXCEPT ![r] = res.node]
    /\ UNCHANGED <<node_ids, f, clock, calls>>

\* nodes[r].observe_proposal(blk)
ObserveProposal(r, blk) ==
    /\ MayHear(nodes[r], Hash(blk))
    /\ nodes' = [nodes EXCEPT ![r] = observe_proposal(nodes[r], blk).node]
    /\ UNCHANGED <<node_ids, f, clock, calls>>

\* nodes[r].observe_vote(vote)
ObserveVote(r, vote) ==
    /\ MayHear(nodes[r], vote.block_hash)
    /\ nodes' = [nodes EXCEPT ![r] = observe_vote(nodes[r], vote).node]
    /\ UNCHANGED <<node_ids, f, clock, calls>>

NextNode ==
    \/ \E epoch \in 0..MaxEpoch : Propose(Replica, epoch, "tx0")
    \/ \E blk \in EnvBlocks : ObserveProposal(Replica, blk)
    \/ \E vote \in EnvVotes(nodes[Replica]) : ObserveVote(Replica, vote)

SpecNode == InitNode /\ [][NextNode]_vars

-----------------------------------------------------------------------------
(* Properties of one replica *)

\* The replica has cast a vote for a block of this epoch.
HasVoted(nd, epoch) ==
    \E h \in DOMAIN nd.blocks :
        nd.blocks[h].epoch = epoch /\ <<h, nd.node_id>> \in DOMAIN nd.votes_seen

\* The hashes of this epoch the replica has voted for.
OwnVotes(nd, epoch) ==
    {h \in DOMAIN nd.blocks :
        nd.blocks[h].epoch = epoch /\ <<h, nd.node_id>> \in DOMAIN nd.votes_seen}

\* C6: a replica votes for at most one block per epoch: for every epoch e
\* there is at most one hash h with (h, node_id) in votes_seen and
\* blocks[h].epoch = e.
C6_OneVotePerEpoch ==
    \A r \in Ids : \A e \in 0..MaxEpoch : Cardinality(OwnVotes(nodes[r], e)) <= 1

\* C6 witness: the replica has voted in an epoch and knows a second block
\* of that epoch.
C6_Witness ==
    \E h1 \in DOMAIN nodes[Replica].blocks, h2 \in DOMAIN nodes[Replica].blocks :
        /\ h1 # h2
        /\ EpochOf(nodes[Replica], h1) = EpochOf(nodes[Replica], h2)
        /\ h1 \in OwnVotes(nodes[Replica], EpochOf(nodes[Replica], h1))

\* The known ancestors of h through parent_of, h included.
Ancestors(nd, h) ==
    LET w == Walk(nd, h, <<>>) IN {w.chain[i] : i \in 1..Len(w.chain)}

\* C8: three consecutive notarized blocks commit the middle one: if B1, B2,
\* B3 are known and notarized, parent_of[B3] = B2, parent_of[B2] = B1 and
\* B3.epoch = B2.epoch + 1 = B1.epoch + 2, then B2 and every ancestor of B2
\* are in finalized.
C8_ThreeNotarizedCommit ==
    \A r \in Ids :
        LET nd == nodes[r]
            known == DOMAIN nd.blocks \cap nd.notarized_blocks
        IN \A b1 \in known, b2 \in known, b3 \in known :
              (/\ nd.parent_of[b3] = b2
               /\ nd.parent_of[b2] = b1
               /\ nd.blocks[b3].epoch = nd.blocks[b2].epoch + 1
               /\ nd.blocks[b2].epoch = nd.blocks[b1].epoch + 1)
                  => Ancestors(nd, b2) \subseteq nd.finalized

\* C9: every step of propose, observe_proposal or observe_vote leaves
\* finalized and notarized_blocks non-decreasing under set inclusion.
C9_Monotonic ==
    [][\A r \in Ids :
          /\ nodes[r].finalized \subseteq nodes'[r].finalized
          /\ nodes[r].notarized_blocks \subseteq nodes'[r].notarized_blocks]_vars

\* C9 witness: both sets have grown, notarized_blocks in several steps.
C9_Witness ==
    /\ Cardinality(nodes[Replica].notarized_blocks) >= 2
    /\ nodes[Replica].finalized # {}

\* C10: once a replica has voted for a block of epoch e, observe_proposal
\* of any block of epoch e returns no vote and adds no entry to votes_seen;
\* with the block already voted for it leaves the replica unchanged.
C10_SecondProposalNoVote ==
    LET nd == nodes[Replica]
    IN \A blk \in EnvBlocks \cup {nd.blocks[h] : h \in DOMAIN nd.blocks} :
          HasVoted(nd, blk.epoch) =>
              LET res == observe_proposal(nd, blk)
              IN /\ res.out = {}
                 /\ res.node.votes_seen = nd.votes_seen
                 /\ (<<Hash(blk), nd.node_id>> \in DOMAIN nd.votes_seen
                        => res.node = nd)

\* C10 witness: the replica voted in an epoch and was then sent another
\* block of that epoch which extends its longest notarized chain, and did
\* not vote for it.
C10_Witness ==
    LET nd == nodes[Replica]
    IN \E h1 \in DOMAIN nd.blocks, h2 \in DOMAIN nd.blocks :
          /\ h1 # h2
          /\ nd.blocks[h1].epoch = nd.blocks[h2].epoch
          /\ <<h1, nd.node_id>> \in DOMAIN nd.votes_seen
          /\ <<h2, nd.node_id>> \notin DOMAIN nd.votes_seen
          /\ nd.blocks[h2].parent_hash \in ProposeParents(nd)

-----------------------------------------------------------------------------
(* Return values of observe_vote *)

\* C11: observe_vote returns a notarization exactly when the delivered vote
\* makes the block cross the quorum (the block was not in notarized_blocks
\* before the call and is after it); on every other vote, votes for an
\* already notarized block included, it returns nothing.
C11_NotarizationOnCrossing ==
    \A r \in Ids : \A v \in Ids \ {r} : \A h \in DOMAIN nodes[r].blocks :
        LET nd == nodes[r]
            res == observe_vote(nd, VoteOf(v, nd.blocks[h]))
        IN res.out # {} <=> (/\ h \notin nd.notarized_blocks
                             /\ h \in res.node.notarized_blocks)

\* C12: quorum latch: a hash b is in notarized_blocks if and only if
\* notarizations[b] exists and holds at least 2f+1 voter ids, in every state
\* (so b enters notarized_blocks in the step its voter set reaches 2f+1).
C12_QuorumLatch ==
    \A r \in Ids :
        LET nd == nodes[r]
        IN \A b \in nd.notarized_blocks \cup DOMAIN nd.notarizations :
              b \in nd.notarized_blocks <=>
                  (/\ b \in DOMAIN nd.notarizations
                   /\ Cardinality(nd.notarizations[b].voters) >= 2 * nd.f + 1)

\* C12 witness: one block has reached the quorum and is notarized, another
\* is one vote short of it and is not.
C12_Witness ==
    LET nd == nodes[Replica]
    IN \E b1 \in DOMAIN nd.notarizations, b2 \in DOMAIN nd.notarizations :
          /\ Cardinality(nd.notarizations[b1].voters) = 2 * nd.f + 1
          /\ b1 \in nd.notarized_blocks
          /\ Cardinality(nd.notarizations[b2].voters) = 2 * nd.f
          /\ b2 \notin nd.notarized_blocks

-----------------------------------------------------------------------------
(* Rejected votes *)

\* An id outside the roster.
Stranger == NodeNames[Len(node_ids) + 1]

\* Votes that observe_vote must not accept: for a block in flight, a vote in
\* the name of a roster member signed with another member's key, one whose
\* signature covers another epoch, and a vote signed by a stranger.
ForgedVotes(nd) ==
    UNION {{[VoteOf(v, blk) EXCEPT !.signature = Sign(w, VoteMsg(Hash(blk), blk.epoch, v))] :
               w \in Ids \ {v}}
           \cup {[VoteOf(v, blk) EXCEPT
                     !.signature = Sign(v, VoteMsg(Hash(blk), blk.epoch + 1, v))]}
           : v \in Ids \ {nd.node_id}, blk \in EnvBlocks}
    \cup {VoteOf(Stranger, blk) : blk \in EnvBlocks}

\* C13: a vote with an invalid signature, or from a voter id that is not in
\* public_keys, is dropped: observe_vote returns nothing and leaves
\* votes_seen, notarizations, notarized_blocks and finalized unchanged.
C13_ForgedVoteDropped ==
    LET nd == nodes[Replica]
    IN \A vote \in ForgedVotes(nd) :
          LET res == observe_vote(nd, vote)
          IN /\ res.out = {}
             /\ res.node.votes_seen = nd.votes_seen
             /\ res.node.notarizations = nd.notarizations
             /\ res.node.notarized_blocks = nd.notarized_blocks
             /\ res.node.finalized = nd.finalized

\* C13 witness: a known block is one vote short of the quorum, so a forged
\* vote taken for a real one would notarize it.
C13_Witness ==
    LET nd == nodes[Replica]
    IN \E b \in DOMAIN nd.blocks \cap DOMAIN nd.notarizations :
          /\ Cardinality(nd.notarizations[b].voters) = get_quorum(nd) - 1
          /\ b \notin nd.notarized_blocks
          /\ \E vote \in ForgedVotes(nd) :
                 /\ vote.block_hash = b
                 /\ vote.voter_id \in Ids \ nd.notarizations[b].voters

\* C14: delivering the same valid vote a second time is a no-op: the second
\* observe_vote returns nothing and changes no state, so a (block, voter)
\* pair adds the voter to the block's voter set once.
C14_DuplicateVoteNoOp ==
    LET nd == nodes[Replica]
    IN /\ \A vote \in EnvVotes(nd) :
             LET first == observe_vote(nd, vote)
                 second == observe_vote(first.node, vote)
             IN second.out = {} /\ second.node = first.node
       /\ \A key \in DOMAIN nd.votes_seen :
             observe_vote(nd, nd.votes_seen[key]) = [node |-> nd, out |-> {}]

\* C14 witness: a vote of another replica is recorded for a block that is
\* notarized, where a vote counted again would return a notarization.
C14_Witness ==
    LET nd == nodes[Replica]
    IN \E key \in DOMAIN nd.votes_seen :
          /\ key[2] # nd.node_id
          /\ key[1] \in nd.notarized_blocks
          /\ nd.votes_seen[key] \in EnvVotes(nd)

-----------------------------------------------------------------------------
(* Leader election *)

\* The epochs propose is probed with: two rounds of the roster.
ProbeEpochs == 0..(2 * Len(node_ids))

\* C15: propose on a replica that is not the leader of the epoch returns no
\* block and leaves blocks, parent_of, votes_seen, notarizations,
\* notarized_blocks and finalized unchanged.
C15_NonLeaderProposeNoOp ==
    LET nd == nodes[Replica]
    IN \A e \in ProbeEpochs, payload \in Payloads, parent_hash \in ProposeParents(nd) :
          node_ids[(e % Len(node_ids)) + 1] # nd.node_id =>
              propose(nd, e, node_ids, payload, parent_hash) = [node |-> nd, out |-> {}]

\* C15 witness: the replica holds blocks, votes and a notarized block, and
\* is asked to propose in an epoch another replica leads.
C15_Witness ==
    LET nd == nodes[Replica]
    IN /\ DOMAIN nd.blocks # {}
       /\ DOMAIN nd.votes_seen # {}
       /\ nd.notarized_blocks # {}
       /\ \E e \in ProbeEpochs : node_ids[(e % Len(node_ids)) + 1] # nd.node_id

\* The replicas whose propose returns a block for the epoch.
Proposers(e) ==
    {r \in Ids : \E parent_hash \in ProposeParents(nodes[r]) :
                    propose(nodes[r], e, node_ids, "tx0", parent_hash).out # {}}

\* C16: leader election is round-robin: for every epoch e >= 0
\* leader_for_epoch returns roster[e mod n], exactly one replica's propose
\* returns a block for e, and it is the replica step_epoch selects (the
\* propose call inside step_epoch never returns nothing).
C16_RoundRobinLeader ==
    /\ \A e \in ProbeEpochs :
          LET leader == node_ids[(e % Len(node_ids)) + 1]
          IN /\ leader_for_epoch(e, node_ids) = leader
             /\ Proposers(e) = {leader}
             /\ \A parent_hash \in ProposeParents(nodes[leader]) :
                   LET s == step_epoch(nodes, node_ids, e, "tx0", parent_hash, {}, {})
                   IN \A b \in s.proposal \cup {None} :
                         /\ s.proposal # {}
                         /\ b # None => b.proposer_id = leader /\ b.epoch = e
    /\ \A i \in 1..Len(calls) :
          /\ calls[i].proposal # {}
          /\ \A b \in calls[i].proposal :
                b.proposer_id = node_ids[(calls[i].epoch % Len(node_ids)) + 1]

\* C16 witness: steps led by two different replicas, one epoch stepped
\* twice by the same leader.
C16_Witness ==
    \E i \in 1..Len(calls), j \in 1..Len(calls), k \in 1..Len(calls) :
        /\ i < j /\ calls[i].epoch = calls[j].epoch
        /\ calls[k].epoch # calls[i].epoch
        /\ \E bi \in calls[i].proposal, bj \in calls[j].proposal, bk \in calls[k].proposal :
              bi.proposer_id = bj.proposer_id /\ bk.proposer_id # bi.proposer_id

-----------------------------------------------------------------------------
(* Rejected proposals *)

\* Proposals with a negative epoch, on GENESIS or on a block the replica
\* knows.
NegativeBlocks(nd) ==
    {Block(parent_hash, -1, proposer_id, "tx0") :
        parent_hash \in {GENESIS} \cup DOMAIN nd.blocks, proposer_id \in Ids}

\* C17: a proposal with a negative epoch is rejected without a failure:
\* observe_proposal returns no vote, raises no error and adds no entry to
\* votes_seen.
C17_NegativeEpochRejected ==
    LET nd == nodes[Replica]
    IN \A blk \in NegativeBlocks(nd) :
          LET res == observe_proposal(nd, blk)
          IN /\ res.out = {}
             /\ ~res.raised
             /\ res.node.votes_seen = nd.votes_seen

-----------------------------------------------------------------------------
(* Construction: StreamletNetwork.__init__ and the Node dataclass accept any *)
(* roster and any public_keys.  The harness is built on the empty roster,   *)
(* on a roster of 3f+1, and with replicas built without their own key.      *)

\* Node(node_id, keys, public_keys, f) with a public_keys that lacks node_id.
NodeWithoutOwnKey(id, ids, ff) ==
    LET nd == NewNode(id, ids, ff)
    IN [nd EXCEPT !.public_keys =
           [v \in DOMAIN nd.public_keys \ {id} |-> nd.public_keys[v]]]

InitConfig ==
    /\ f = F
    /\ node_ids \in {<<>>, Roster(3 * F + 1)}
    /\ \E own_key \in BOOLEAN :
          nodes = [id \in {node_ids[i] : i \in 1..Len(node_ids)} |->
                      IF own_key THEN NewNode(id, node_ids, f)
                      ELSE NodeWithoutOwnKey(id, node_ids, f)]
    /\ clock = 0
    /\ calls = <<>>

\* net.step_epoch(epoch, payload); on the empty roster
\* `epoch % len(self.node_ids)` raises ZeroDivisionError.
StepEpochConfig(epoch, payload) ==
    /\ Len(calls) < MaxSteps
    /\ IF node_ids = <<>>
       THEN /\ calls' = Append(calls, [epoch |-> epoch, payload |-> payload,
                                       raised |-> "ZeroDivisionError"])
            /\ UNCHANGED <<node_ids, f, nodes, clock>>
       ELSE StepEpochTo(epoch, payload, Ids, Ids)

NextConfig ==
    \E epoch \in 0..MaxEpoch, payload \in Payloads : StepEpochConfig(epoch, payload)

SpecConfig == InitConfig /\ [][NextConfig]_vars

\* C18: configuration errors are surfaced at construction: a network with
\* an empty roster, or a replica whose public_keys lacks its own node_id,
\* is never built, so no step_epoch is reached with such a configuration.
C18_ConfigCheckedAtConstruction ==
    calls # <<>> =>
        /\ node_ids # <<>>
        /\ \A r \in Ids : r \in DOMAIN nodes[r].public_keys

-----------------------------------------------------------------------------
(* The voting rule *)

\* The tips of the longest notarized chains of a replica.
LongestTips(nd) == {c[Len(c)] : c \in longest_notarized_chains(nd)}

\* C19: once a replica has a notarized block, observe_proposal(b) returns a
\* vote if and only if the replica has not voted in b.epoch, b.epoch >= 0
\* and b.parent_hash is the tip of one of its longest notarized chains; it
\* never votes for a proposal whose parent is GENESIS or unknown to it.
C19_VoteOnlyOnLongestTip ==
    LET nd == nodes[Replica]
    IN nd.notarized_blocks # {} =>
          \A blk \in EnvBlocks :
              LET res == observe_proposal(nd, blk)
              IN /\ res.out # {} <=>
                        (/\ ~HasVoted(nd, blk.epoch)
                         /\ blk.epoch >= 0
                         /\ blk.parent_hash \in LongestTips(res.node))
                 /\ res.out # {} =>
                        (/\ blk.parent_hash # GENESIS
                         /\ blk.parent_hash \in DOMAIN nd.blocks)

\* C20: bootstrap voting: a replica with no notarized block that has not
\* voted in b.epoch (b.epoch >= 0) votes for proposal b if and only if
\* b.parent_hash is GENESIS or a hash that is not in its blocks; a proposal
\* on a known, un-notarized block gets no vote.
C20_BootstrapVote ==
    LET nd == nodes[Replica]
    IN \A blk \in EnvBlocks :
          (/\ nd.notarized_blocks = {}
           /\ ~HasVoted(nd, blk.epoch)
           /\ blk.epoch >= 0) =>
              (observe_proposal(nd, blk).out # {} <=>
                  (blk.parent_hash = GENESIS \/ blk.parent_hash \notin DOMAIN nd.blocks))

\* C20 witness: a replica without notarized blocks is offered, in epochs it
\* has not voted in, a block on a known block and a block on an unknown one.
C20_Witness ==
    LET nd == nodes[Replica]
    IN /\ nd.notarized_blocks = {}
       /\ \E b1 \in EnvBlocks, b2 \in EnvBlocks :
             /\ ~HasVoted(nd, b1.epoch) /\ ~HasVoted(nd, b2.epoch)
             /\ b1.parent_hash \in DOMAIN nd.blocks
             /\ b2.parent_hash # GENESIS /\ b2.parent_hash \notin DOMAIN nd.blocks
             /\ observe_proposal(nd, b1).out = {}
             /\ observe_proposal(nd, b2).out # {}

-----------------------------------------------------------------------------
(* The finalization rule *)

\* b2 is the middle of three known, notarized, parent-linked blocks of
\* consecutive epochs.
IsMiddle(nd, b2) ==
    LET known == DOMAIN nd.blocks \cap nd.notarized_blocks
    IN /\ b2 \in known
       /\ \E b1 \in known, b3 \in known :
             /\ nd.parent_of[b3] = b2
             /\ nd.parent_of[b2] = b1
             /\ nd.blocks[b3].epoch = nd.blocks[b2].epoch + 1
             /\ nd.blocks[b2].epoch = nd.blocks[b1].epoch + 1

\* C21: a block enters finalized only through the three-consecutive-epochs
\* rule: every hash in finalized is the middle block B2 of three known,
\* notarized, parent-linked blocks with B3.epoch = B2.epoch + 1 =
\* B1.epoch + 2, or an ancestor through parent_of of such a B2.
C21_FinalizedOnlyByRule ==
    \A r \in Ids : \A h \in nodes[r].finalized :
        \E b2 \in DOMAIN nodes[r].blocks :
            IsMiddle(nodes[r], b2) /\ h \in Ancestors(nodes[r], b2)

\* C21 witness: a replica has finalized a middle block and an ancestor of
\* it that is not itself the middle of a triple.
C21_Witness ==
    \E r \in Ids : \E h1 \in nodes[r].finalized, h2 \in nodes[r].finalized :
        /\ IsMiddle(nodes[r], h1)
        /\ ~IsMiddle(nodes[r], h2)
        /\ h2 \in Ancestors(nodes[r], h1)

-----------------------------------------------------------------------------
(* Invariants of the local view *)

\* C22: every hash in notarized_blocks is a key of blocks, at every replica
\* and under any order of deliveries.
C22_NotarizedKnown ==
    \A r \in Ids : nodes[r].notarized_blocks \subseteq DOMAIN nodes[r].blocks

\* C23: for every hash b in parent_of, parent_of[b] is None (the parent is
\* GENESIS) or the hash of a block that is in blocks.
C23_ParentKnown ==
    \A r \in Ids : \A b \in DOMAIN nodes[r].parent_of :
        \/ nodes[r].parent_of[b] = None
        \/ nodes[r].parent_of[b] \in DOMAIN nodes[r].blocks

-----------------------------------------------------------------------------
(* propose and longest_notarized_chains *)

\* C24: on the leader of the epoch propose returns a block with the given
\* epoch and payload, its own id as proposer_id and the tip of one of its
\* longest notarized chains as parent_hash (GENESIS when there is none); it
\* records the block in blocks and parent_of and leaves votes_seen,
\* notarizations, notarized_blocks and finalized unchanged.
C24_LeaderPropose ==
    LET nd == nodes[Replica]
        tips == LongestTips(nd)
    IN \A e \in ProbeEpochs, payload \in Payloads, parent_hash \in ProposeParents(nd) :
          node_ids[(e % Len(node_ids)) + 1] = nd.node_id =>
              LET res == propose(nd, e, node_ids, payload, parent_hash)
              IN /\ Cardinality(res.out) = 1
                 /\ \A blk \in res.out :
                       /\ blk.epoch = e /\ blk.payload = payload
                       /\ blk.proposer_id = nd.node_id
                       /\ blk.parent_hash \in (IF tips = {} THEN {GENESIS} ELSE tips)
                       /\ Hash(blk) \in DOMAIN res.node.blocks
                       /\ res.node.blocks[Hash(blk)] = blk
                       /\ Hash(blk) \in DOMAIN res.node.parent_of
                       /\ res.node.parent_of[Hash(blk)] =
                              (IF blk.parent_hash = GENESIS THEN None ELSE blk.parent_hash)
                 /\ res.node.votes_seen = nd.votes_seen
                 /\ res.node.notarizations = nd.notarizations
                 /\ res.node.notarized_blocks = nd.notarized_blocks
                 /\ res.node.finalized = nd.finalized

\* C24 witness: the leader of epoch 0 holds two longest notarized chains
\* with different tips.
C24_Witness ==
    /\ node_ids[(0 % Len(node_ids)) + 1] = Replica
    /\ Cardinality(LongestTips(nodes[Replica])) >= 2

\* The sequences of known blocks that end at a notarized block and follow
\* parent_of from one block to the next, the first one built on GENESIS.
QualifyingChains(nd) ==
    LET known == DOMAIN nd.blocks
        seqs == UNION {[1..k -> known] : k \in 1..Cardinality(known)}
    IN {c \in seqs :
           /\ c[Len(c)] \in nd.notarized_blocks
           /\ Get(nd.parent_of, c[1]) = None
           /\ \A i \in 1..(Len(c) - 1) : Get(nd.parent_of, c[i + 1]) = c[i]}

\* C25: longest_notarized_chains returns exactly the chains that end at a
\* block in notarized_blocks, follow parent_of through known blocks down to
\* GENESIS, and have the maximum length among these; a notarized tip whose
\* parent walk reaches an unknown block contributes no chain, and the
\* result is empty when no chain qualifies.
C25_LongestChains ==
    LET nd == nodes[Replica]
        qual == QualifyingChains(nd)
    IN longest_notarized_chains(nd) =
          {c \in qual : \A d \in qual : Len(d) <= Len(c)}

\* C25 witness: two notarized tips with chains of different lengths down
\* to GENESIS, and a notarized known block on an unknown parent.
C25_Witness ==
    LET nd == nodes[Replica]
        qual == QualifyingChains(nd)
    IN /\ \E c \in qual, d \in qual : Len(c) < Len(d)
       /\ \E b \in nd.notarized_blocks \cap DOMAIN nd.blocks :
             /\ nd.parent_of[b] # None
             /\ nd.parent_of[b] \notin DOMAIN nd.blocks

-----------------------------------------------------------------------------
(* Frame of propose and observe_proposal *)

\* C26: notarization and finalization happen only inside observe_vote:
\* propose and observe_proposal leave notarizations, notarized_blocks and
\* finalized unchanged, even when the delivered block completes a
\* parent-linked triple of already notarized hashes.
C26_OnlyVotesNotarize ==
    LET nd == nodes[Replica]
    IN /\ \A blk \in EnvBlocks :
             LET res == observe_proposal(nd, blk)
             IN /\ res.node.notarizations = nd.notarizations
                /\ res.node.notarized_blocks = nd.notarized_blocks
                /\ res.node.finalized = nd.finalized
       /\ \A e \in ProbeEpochs, payload \in Payloads, parent_hash \in ProposeParents(nd) :
             LET res == propose(nd, e, node_ids, payload, parent_hash)
             IN /\ res.node.notarizations = nd.notarizations
                /\ res.node.notarized_blocks = nd.notarized_blocks
                /\ res.node.finalized = nd.finalized

\* C26 witness: three hashes of consecutive epochs are notarized, the
\* first and the last block are known, and the middle block is delivered
\* last: nothing is finalized by its delivery.
C26_Witness ==
    LET nd == nodes[Replica]
    IN \E b1 \in EnvBlocks, b2 \in EnvBlocks, b3 \in EnvBlocks :
          /\ b3.parent_hash = Hash(b2) /\ b2.parent_hash = Hash(b1)
          /\ b3.epoch = b2.epoch + 1 /\ b2.epoch = b1.epoch + 1
          /\ {Hash(b1), Hash(b2), Hash(b3)} \subseteq nd.notarized_blocks
          /\ Hash(b1) \in DOMAIN nd.blocks /\ Hash(b3) \in DOMAIN nd.blocks
          /\ Hash(b2) \notin DOMAIN nd.blocks
          /\ observe_proposal(nd, b2).node.finalized = {}

-----------------------------------------------------------------------------
(* Delivery by step_epoch *)

\* C27: step_epoch delivers the proposal to every replica, the proposer
\* included, and every collected vote to every replica: the proposed block
\* is in blocks of every replica, and for every replica V that voted the
\* pair (block hash, V) is in votes_seen of every replica.
C27_StepDeliversToAll ==
    \A i \in 1..Len(calls) :
        /\ calls[i].proposal # {}
        /\ \A r \in Ids :
              /\ ProposalOf(i) \in DOMAIN nodes[r].blocks
              /\ \A v \in calls[i].voters :
                    <<ProposalOf(i), v>> \in DOMAIN nodes[r].votes_seen

\* C27 witness: a step in which every replica voted, the proposer
\* included, followed by a step in which none did.
C27_Witness ==
    \E i \in 1..Len(calls), j \in 1..Len(calls) :
        /\ i < j
        /\ calls[i].voters = Ids
        /\ calls[j].voters = {}
        /\ \A r \in Ids : ProposalOf(j) \in DOMAIN nodes[r].blocks

-----------------------------------------------------------------------------
(* Growth of the local view *)

\* Every entry of dictionary d is an entry of e with the same value.
Extends(d, e) == \A k \in DOMAIN d : k \in DOMAIN e /\ e[k] = d[k]

\* C28: blocks, votes and notarization aggregates only grow: in every step
\* no entry of blocks, parent_of or votes_seen is removed or changed, and
\* the voter set of every notarizations[b] is non-decreasing.
C28_ViewOnlyGrows ==
    [][\A r \in Ids :
          /\ Extends(nodes[r].blocks, nodes'[r].blocks)
          /\ Extends(nodes[r].parent_of, nodes'[r].parent_of)
          /\ Extends(nodes[r].votes_seen, nodes'[r].votes_seen)
          /\ \A b \in DOMAIN nodes[r].notarizations :
                /\ b \in DOMAIN nodes'[r].notarizations
                /\ nodes[r].notarizations[b].voters \subseteq
                       nodes'[r].notarizations[b].voters]_vars

\* C28 witness: the replica holds several blocks, an own vote and votes
\* of others, and a voter set of more than one replica.
C28_Witness ==
    LET nd == nodes[Replica]
    IN /\ Cardinality(DOMAIN nd.blocks) >= 2
       /\ \E k \in DOMAIN nd.votes_seen : k[2] = nd.node_id
       /\ \E b \in DOMAIN nd.notarizations :
             Cardinality(nd.notarizations[b].voters) >= 2
       /\ Cardinality(DOMAIN nd.notarizations) >= 2

-----------------------------------------------------------------------------
(* finalized_by_all *)

\* C29: finalized_by_all returns exactly the intersection of the finalized
\* sets of all replicas: a hash is in the result if and only if it is in
\* finalized of every replica.
C29_FinalizedByAll ==
    /\ \A h \in UNION {DOMAIN nodes[r].blocks \cup nodes[r].finalized : r \in Ids} :
          h \in finalized_by_all(nodes, node_ids) <=>
              \A r \in Ids : h \in nodes[r].finalized
    /\ \A h \in finalized_by_all(nodes, node_ids) :
          \A r \in Ids : h \in nodes[r].finalized

\* C29 witness: a block finalized by every replica, and a block finalized
\* by some replicas only.
C29_Witness ==
    /\ finalized_by_all(nodes, node_ids) # {}
    /\ \E r1 \in Ids, r2 \in Ids : nodes[r1].finalized \ nodes[r2].finalized # {}

-----------------------------------------------------------------------------
(* The replica's own vote *)

\* C30: a replica's own vote never counts toward its own notarization: its
\* id is in no voter set of its notarizations, and a block it holds
\* notarized has 2f+1 votes of other replicas.
C30_OwnVoteNotCounted ==
    \A r \in Ids :
        LET nd == nodes[r]
        IN /\ \A b \in DOMAIN nd.notarizations :
                 nd.node_id \notin nd.notarizations[b].voters
           /\ \A b \in nd.notarized_blocks :
                 /\ b \in DOMAIN nd.notarizations
                 /\ Cardinality(nd.notarizations[b].voters \ {nd.node_id}) >= 2 * nd.f + 1

\* C30 witness: the replica voted for a block, holds it notarized, and its
\* own vote is among the votes in flight to it.
C30_Witness ==
    LET nd == nodes[Replica]
    IN \E b \in nd.notarized_blocks :
          /\ <<b, nd.node_id>> \in DOMAIN nd.votes_seen
          /\ nd.votes_seen[<<b, nd.node_id>>] \in EnvVotes(nd)
          /\ Cardinality(nd.notarizations[b].voters) = 2 * nd.f + 1

-----------------------------------------------------------------------------
(* Agreement of the views in the harness *)

\* The part of a replica's view that does not name the replica.
View(nd) ==
    [blocks |-> nd.blocks, parent_of |-> nd.parent_of,
     notarized_blocks |-> nd.notarized_blocks, finalized |-> nd.finalized]

\* C31: in the harness with n >= 3f+1 replicas, after every completed
\* step_epoch call all replicas hold the same blocks, parent_of,
\* notarized_blocks and finalized; in each step either every replica votes
\* for the proposal or none does.
C31_IdenticalViews ==
    Len(node_ids) >= 3 * f + 1 =>
        /\ \A r1 \in Ids, r2 \in Ids : View(nodes[r1]) = View(nodes[r2])
        /\ \A i \in 1..Len(calls) : calls[i].voters \in {{}, Ids}

\* C31 witness: the replicas have finalized a block, and one step got the
\* votes of all replicas and another step none.
C31_Witness ==
    /\ \A r \in Ids : nodes[r].finalized # {}
    /\ \E i \in 1..Len(calls), j \in 1..Len(calls) :
          calls[i].voters = Ids /\ calls[j].voters = {}

-----------------------------------------------------------------------------
(* 3f+1 replicas, every message delivered in any order, any number of times *)

\* At most MaxProposals blocks are proposed, in the epochs 0..AsyncEpoch; the
\* k-th block carries the k-th payload.  At most MaxVoteDeliveries votes of
\* other replicas are delivered in all.
MaxProposals == 2
AsyncEpoch == 0
MaxVoteDeliveries == 6
PayloadSeq == <<"tx0", "tx1", "tx0", "tx1">>

\* The blocks the leaders have proposed so far (propose records the block
\* at the proposer).
SentBlocks ==
    UNION {{nodes[r].blocks[h] : h \in DOMAIN nodes[r].blocks} : r \in Ids}

\* The votes the replicas have returned so far (observe_proposal records
\* the vote at the voter).
SentVotes ==
    UNION {{nodes[r].votes_seen[k] :
               k \in {x \in DOMAIN nodes[r].votes_seen : x[2] = r}} : r \in Ids}

\* The leader r proposes; the block is not yet delivered to anyone.
AsyncPropose(r, epoch) ==
    /\ leader_for_epoch(epoch, node_ids) = r
    /\ Cardinality(SentBlocks) < MaxProposals
    /\ \E parent_hash \in ProposeParents(nodes[r]) :
          LET payload == PayloadSeq[Cardinality(SentBlocks) + 1]
              res == propose(nodes[r], epoch, node_ids, payload, parent_hash)
          IN nodes' = [nodes EXCEPT ![r] = res.node]
    /\ UNCHANGED <<node_ids, f, clock, calls>>

\* A proposed block reaches r (a block r holds and cannot vote for any more
\* changes nothing).
AsyncObserveProposal(r, blk) ==
    /\ \/ Hash(blk) \notin DOMAIN nodes[r].blocks
       \/ ~VotedInEpoch(nodes[r], blk.epoch)
    /\ ObserveProposal(r, blk)

\* The votes of other replicas that r has recorded.
VotesReceived(r) == {k \in DOMAIN nodes[r].votes_seen : k[2] # r}

RECURSIVE VoteDeliveries(_)
VoteDeliveries(rs) ==
    IF rs = {} THEN 0
    ELSE LET r == CHOOSE x \in rs : TRUE
         IN Cardinality(VotesReceived(r)) + VoteDeliveries(rs \ {r})

\* A returned vote reaches r (a vote r has recorded changes nothing).
AsyncObserveVote(r, vote) ==
    /\ VoteDeliveries(Ids) < MaxVoteDeliveries
    /\ <<vote.block_hash, vote.voter_id>> \notin DOMAIN nodes[r].votes_seen
    /\ ObserveVote(r, vote)

NextAsync ==
    \/ \E r \in Ids, epoch \in 0..AsyncEpoch : AsyncPropose(r, epoch)
    \/ \E r \in Ids, blk \in SentBlocks : AsyncObserveProposal(r, blk)
    \/ \E r \in Ids, vote \in SentVotes : AsyncObserveVote(r, vote)

SpecAsync == InitNode /\ [][NextAsync]_vars

\* C32: with n = 3f+1 replicas and proposals and votes delivered in any
\* order (several proposals of a leader for one epoch included), no two
\* distinct blocks of the same epoch are notarized, at the same replica or
\* at two replicas.
C32_OneNotarizedPerEpoch ==
    \A r1 \in Ids, r2 \in Ids :
        \A h1 \in nodes[r1].notarized_blocks, h2 \in nodes[r2].notarized_blocks :
            nodes[r1].notarizations[h1].epoch = nodes[r2].notarizations[h2].epoch
                => h1 = h2

\* C32 witness: a leader has proposed two blocks for one epoch, both have
\* votes, and one of them is notarized.
C32_Witness ==
    \E b1 \in SentBlocks, b2 \in SentBlocks :
        /\ b1 # b2 /\ b1.epoch = b2.epoch
        /\ \E v1 \in SentVotes, v2 \in SentVotes :
              v1.block_hash = Hash(b1) /\ v2.block_hash = Hash(b2)
        /\ \E r \in Ids : Hash(b1) \in nodes[r].notarized_blocks

-----------------------------------------------------------------------------
(* Closure of finalized under parents *)

\* The proposal of the i-th step reaches, late, a replica the step did not
\* deliver it to; the vote the replica may return is lost.
LateProposal(i, r) ==
    /\ r \notin calls[i].to_p
    /\ \E blk \in calls[i].proposal :
          nodes' = [nodes EXCEPT ![r] = observe_proposal(nodes[r], blk).node]
    /\ UNCHANGED <<node_ids, f, clock, calls>>

NextLate ==
    \/ NextNet
    \/ \E i \in 1..Len(calls), r \in Ids : LateProposal(i, r)

SpecLate == Init /\ [][NextLate]_vars

\* C33: the finalized set of a replica is closed under parents: if b is in
\* finalized and parent_of[b] is the hash of a block in blocks, then
\* parent_of[b] is in finalized too.
C33_FinalizedParentClosed ==
    \A r \in Ids : \A b \in nodes[r].finalized :
        (b \in DOMAIN nodes[r].parent_of
            /\ nodes[r].parent_of[b] \in DOMAIN nodes[r].blocks)
            => nodes[r].parent_of[b] \in nodes[r].finalized

-----------------------------------------------------------------------------
(* Two halves that exchange no message, and one replica that hears both *)

InitObserver ==
    /\ f = F
    /\ node_ids = Roster(2 * HalfSize + 1)
    /\ nodes = [id \in {node_ids[i] : i \in 1..Len(node_ids)} |->
                   NewNode(id, node_ids, f)]
    /\ clock = 0
    /\ calls = <<>>

\* The last replica of the roster, a member of neither half.
Observer == node_ids[Len(node_ids)]

\* step_epoch(clock, payload) with the messages confined to one half and
\* the observer.
ObserverStep(side) ==
    /\ Len(calls) < PartitionSteps
    /\ \A i \in 1..Len(calls) :
          ~(calls[i].epoch = clock /\ calls[i].to_p = Half(side) \cup {Observer})
    /\ StepEpochTo(clock, HalfPayload(side),
                   Half(side) \cup {Observer}, Half(side) \cup {Observer})

NextObserver == Tick \/ \E side \in {1, 2} : ObserverStep(side)

SpecObserver == InitObserver /\ [][NextObserver]_vars

\* C34: within a single replica no two distinct finalized blocks carry the
\* same epoch (the map epoch -> hash built from the replica's finalized set
\* never overwrites an entry with a different hash).
C34_OneFinalizedPerEpoch ==
    \A r \in Ids : \A h1 \in nodes[r].finalized, h2 \in nodes[r].finalized :
        EpochOf(nodes[r], h1) = EpochOf(nodes[r], h2) => h1 = h2

-----------------------------------------------------------------------------
(* The notarized blocks of the harness *)

\* C35: in the harness the notarized blocks never fork: at each replica
\* every notarized block is known and its parent is GENESIS or a notarized
\* block, no two notarized blocks share a parent, and
\* longest_notarized_chains returns at most one chain.
C35_NotarizedLinear ==
    \A r \in Ids :
        LET nd == nodes[r]
        IN /\ \A b \in nd.notarized_blocks :
                 /\ b \in DOMAIN nd.blocks
                 /\ \/ nd.blocks[b].parent_hash = GENESIS
                    \/ nd.blocks[b].parent_hash \in nd.notarized_blocks
           /\ \A b1 \in nd.notarized_blocks, b2 \in nd.notarized_blocks :
                 nd.blocks[b1].parent_hash = nd.blocks[b2].parent_hash => b1 = b2
           /\ Cardinality(longest_notarized_chains(nd)) <= 1

\* C35 witness: a replica holds a notarized chain of three blocks and a
\* block that was proposed and not notarized.
C35_Witness ==
    \E r \in Ids :
        /\ \E c \in longest_notarized_chains(nodes[r]) : Len(c) >= 3
        /\ DOMAIN nodes[r].blocks \ nodes[r].notarized_blocks # {}

-----------------------------------------------------------------------------
(* The leader's vote for its own proposal *)

\* observe_proposal(blk), called on the proposer right after propose has
\* returned blk, returns a vote for blk.
VotesForOwn(nd, e, payload, parent_hash) ==
    LET p == propose(nd, e, node_ids, payload, parent_hash)
    IN \A blk \in p.out :
          observe_proposal(p.node, blk).out = {VoteOf(nd.node_id, blk)}

\* C36: a leader can always vote for its own fresh proposal: if propose
\* returns a block b for an epoch e >= 0 in which the proposer has not voted,
\* observe_proposal(b) on the proposer right afterwards returns a vote for b,
\* whichever longest chain propose built on.
C36_LeaderVotesForOwn ==
    \A r \in Ids :
        \A e \in ProbeEpochs, payload \in Payloads,
           parent_hash \in ProposeParents(nodes[r]) :
            ~VotedInEpoch(nodes[r], e) => VotesForOwn(nodes[r], e, payload, parent_hash)

====
